---------------------------- MODULE Spec2Model ----------------------------
(***************************************************************************)
(* Model of the memory-backed stream of MIO (src/mio/mio.c).               *)
(*                                                                         *)
(* The state is the C structure mio->impl.mem, kept as one record `mem`.   *)
(* Every stream function is an operator on that record: its value holds    *)
(* the structure after the call (mem), the return value (rv), the bytes    *)
(* the call stored through its output pointer (out) and whether it touched *)
(* memory outside the stream's block (oob).  A call is a step that         *)
(* replaces `mem` by the structure the function leaves.  `client` is the   *)
(* notebook of a client that follows a fixed scenario (what it has written *)
(* and read so far); clients that make arbitrary calls leave it alone.     *)
(*                                                                         *)
(* gsize is an unsigned integer of SizeBits bits and glong a signed one of *)
(* the same width, so every sum and difference of the source is taken      *)
(* modulo 2^SizeBits.  The width is far below the 64 bits of a real build; *)
(* MIO_CHUNK_SIZE is scaled down with it so that a reallocation chunk      *)
(* still fits several times in the address range.                          *)
(***************************************************************************)
EXTENDS Integers, Sequences, FiniteSets, TLC

(***************************************************************************)
(* Bounds of the model.                                                    *)
(***************************************************************************)
SizeBits     == 4   \* width of gsize / glong
MaxAlloc     == 3   \* largest block the allocator can provide
MaxInitSize  == 1   \* largest caller-supplied initial buffer
MaxWriteLen  == 2   \* most bytes handed to one write / puts / printf
MaxReadSize  == 2   \* largest record size / count / line buffer of a read
MaxOffset    == 2   \* largest magnitude of a seek offset
MaxRoundTrip == 4   \* most bytes written in the round-trip scenario

(***************************************************************************)
(* Program constants.                                                      *)
(***************************************************************************)
MIO_CHUNK_SIZE == 2         \* mio.c:30, scaled (see above)
EOF            == -1        \* <stdio.h>
NUL            == 0         \* string terminator
NL             == 10        \* '\n'
SEEK_SET       == 0
SEEK_CUR       == 1
SEEK_END       == 2

GSizeMod  == 2 ^ SizeBits
G_MAXSIZE == GSizeMod - 1

\* Value of a byte of storage that was never written (fresh from the
\* allocator) or that lies outside the allocated block: it stands for any
\* value, and equals no byte the caller wrote.
Garbage == EOF - 1

\* The bytes callers write: a newline and one other character.
Bytes == {NL, 97}

\* (gsize) x
ToGSize(x) == x % GSizeMod
\* (glong) x
ToGLong(x) == LET u == x % GSizeMod
              IN  IF u >= GSizeMod \div 2 THEN u - GSizeMod ELSE u
\* (guchar) x
ToGUChar(x) == x % 256

MAX(a, b) == IF a > b THEN a ELSE b

\* All sequences over S of length 0..n
SeqUpTo(S, n) == UNION {[1..k -> S] : k \in 0..n}

VARIABLES mem, client

vars == <<mem, client>>

(***************************************************************************)
(* Buffer accesses.  buf[i] of the source is index i+1 of the sequence     *)
(* mem.buf, whose length is the size of the allocated block.  An index is  *)
(* a gsize; one outside the block touches memory that is not the stream's. *)
(***************************************************************************)
InBlock(m, i) == ToGSize(i) < Len(m.buf)

Load(m, i) == IF InBlock(m, i) THEN m.buf[ToGSize(i) + 1] ELSE Garbage

\* memcpy (&buf[at], data, Len(data))
Store(b, at, data) ==
  [i \in 1..Len(b) |->
     IF \E k \in 1..Len(data) : ToGSize(at + k - 1) = i - 1
     THEN data[CHOOSE k \in 1..Len(data) : ToGSize(at + k - 1) = i - 1]
     ELSE b[i]]

\* some index of [at, at+n) lies outside the allocated block
Outside(m, at, n) == \E k \in 0..(n - 1) : ~InBlock(m, at + k)

(***************************************************************************)
(* The caller's realloc callback: `avail` is the largest block the         *)
(* allocator can provide when it is called; the callback returns NULL for  *)
(* anything larger.  The bytes of the old block are kept, the new ones are *)
(* unwritten.                                                              *)
(***************************************************************************)
realloc_ok(newsize, avail) == newsize <= avail

realloc_buf(b, newsize) ==
  [i \in 1..newsize |-> IF i <= Len(b) THEN b[i] ELSE Garbage]

\* mio_new_memory
mio_new_memory(data, size, realloc_func) ==
  [buf            |-> data,
   ungetch        |-> EOF,
   pos            |-> 0,
   size           |-> size,
   allocated_size |-> size,
   realloc_func   |-> realloc_func,
   eof            |-> FALSE,
   error          |-> FALSE]

\* try_resize taking a fresh block from the allocator without copying the
\* old bytes into it
try_resize_fresh(m, new_size, avail) ==
  IF ~m.realloc_func THEN [mem |-> m, success |-> FALSE]
  ELSE IF new_size = G_MAXSIZE THEN [mem |-> m, success |-> FALSE]
  ELSE IF new_size > m.size THEN
    IF new_size <= m.allocated_size
    THEN [mem |-> [m EXCEPT !.size = new_size], success |-> TRUE]
    ELSE LET newsize == MAX(ToGSize(m.allocated_size + MIO_CHUNK_SIZE), new_size)
         IN  IF realloc_ok(newsize, avail)
             THEN [mem |-> [m EXCEPT !.buf = [i \in 1..newsize |-> Garbage],
                                     !.allocated_size = newsize,
                                     !.size = new_size],
                   success |-> TRUE]
             ELSE [mem |-> m, success |-> FALSE]
  ELSE [mem |-> m, success |-> FALSE]

\* try_resize raising the size before it knows whether the callback gave
\* a block
try_resize_eager(m, new_size, avail) ==
  IF ~m.realloc_func THEN [mem |-> m, success |-> FALSE]
  ELSE IF new_size = G_MAXSIZE THEN [mem |-> m, success |-> FALSE]
  ELSE IF new_size > m.size THEN
    IF new_size <= m.allocated_size
    THEN [mem |-> [m EXCEPT !.size = new_size], success |-> TRUE]
    ELSE LET newsize == MAX(ToGSize(m.allocated_size + MIO_CHUNK_SIZE), new_size)
         IN  IF realloc_ok(newsize, avail)
             THEN [mem |-> [m EXCEPT !.buf = realloc_buf(m.buf, newsize),
                                     !.allocated_size = newsize,
                                     !.size = new_size],
                   success |-> TRUE]
             ELSE [mem |-> [m EXCEPT !.size = new_size], success |-> FALSE]
  ELSE [mem |-> m, success |-> FALSE]

\* try_resize: the new mem and whether it succeeded
try_resize(m, new_size, avail) ==
  IF ~m.realloc_func THEN [mem |-> m, success |-> FALSE]
  ELSE IF new_size = G_MAXSIZE THEN [mem |-> m, success |-> FALSE]
  ELSE IF new_size > m.size THEN
    IF new_size <= m.allocated_size
    THEN [mem |-> [m EXCEPT !.size = new_size], success |-> TRUE]
    ELSE LET newsize == MAX(ToGSize(m.allocated_size + MIO_CHUNK_SIZE), new_size)
         IN  IF realloc_ok(newsize, avail)
             THEN [mem |-> [m EXCEPT !.buf = realloc_buf(m.buf, newsize),
                                     !.allocated_size = newsize,
                                     !.size = new_size],
                   success |-> TRUE]
             ELSE [mem |-> m, success |-> FALSE]
  ELSE IF realloc_ok(new_size, avail) \/ new_size = 0
       THEN [mem |-> [m EXCEPT !.buf = realloc_buf(m.buf, new_size),
                               !.allocated_size = new_size,
                               !.size = new_size],
             success |-> TRUE]
       ELSE [mem |-> m, success |-> FALSE]

\* try_ensure_space
try_ensure_space(m, n, avail) ==
  IF ToGSize(m.pos + n) > m.size
  THEN try_resize(m, ToGSize(m.pos + n), avail)
  ELSE [mem |-> m, success |-> TRUE]

(***************************************************************************)
(* The stream operations.  Each is a function of the structure and of the  *)
(* call's arguments; its value is the structure afterwards (mem), the      *)
(* return value (rv), the bytes stored through the caller's pointer (out)  *)
(* and whether the call touched memory outside the allocated block (oob).  *)
(***************************************************************************)

\* memcpy (&ptr[at], data, Len(data)) into the caller's array
PtrStore(ptr, at, data) ==
  [i \in 1..MAX(Len(ptr), at + Len(data)) |->
     IF i > at /\ i <= at + Len(data) THEN data[i - at]
     ELSE IF i <= Len(ptr) THEN ptr[i] ELSE Garbage]

\* the n bytes buf[at], ..., buf[at+n-1]
LoadN(m, at, n) == [k \in 1..n |-> Load(m, at + k - 1)]

\* the for loop of mio_read, from n_read records on
RECURSIVE read_loop(_, _, _, _)
read_loop(r, size, nmemb, n_read) ==
  IF n_read >= nmemb \/ ToGSize(r.mem.pos + size) > r.mem.size
  THEN [mem |-> r.mem, rv |-> n_read, out |-> r.out, oob |-> r.oob]
  ELSE read_loop([mem |-> [r.mem EXCEPT !.pos = ToGSize(r.mem.pos + size)],
                  out |-> PtrStore(r.out, n_read * size,
                                   LoadN(r.mem, r.mem.pos, size)),
                  oob |-> r.oob \/ Outside(r.mem, r.mem.pos, size)],
                 size, nmemb, n_read + 1)

\* mio_read
mio_read(m, size, nmemb) ==
  IF size # 0 /\ nmemb # 0 THEN
    LET first ==
          IF m.ungetch # EOF THEN
            LET m1 == [m EXCEPT !.ungetch = EOF, !.pos = ToGSize(m.pos + 1)]
                o1 == <<ToGUChar(m.ungetch)>>
            IN  IF size = 1
                THEN [mem |-> m1, out |-> o1, oob |-> FALSE, n |-> 1]
                ELSE IF ToGSize(m1.pos + (size - 1)) <= m1.size
                THEN [mem |-> [m1 EXCEPT !.pos = ToGSize(m1.pos + (size - 1))],
                      out |-> PtrStore(o1, 1, LoadN(m1, m1.pos, size - 1)),
                      oob |-> Outside(m1, m1.pos, size - 1),
                      n   |-> 1]
                ELSE [mem |-> m1, out |-> o1, oob |-> FALSE, n |-> 0]
          ELSE [mem |-> m, out |-> <<>>, oob |-> FALSE, n |-> 0]
        r == read_loop(first, size, nmemb, first.n)
    IN  [r EXCEPT !.mem.eof = IF r.mem.pos >= r.mem.size THEN TRUE ELSE @]
  ELSE [mem |-> m, rv |-> 0, out |-> <<>>, oob |-> FALSE]

\* mio_write with the cursor advanced by the record count, not the byte count
mio_write_records(m, ptr, size, nmemb, avail) ==
  LET n  == ToGSize(size * nmemb)
      es == try_ensure_space(m, n, avail)
  IN  IF size # 0 /\ nmemb # 0 /\ es.success
      THEN [mem |-> [es.mem EXCEPT
                       !.buf = Store(es.mem.buf, es.mem.pos, SubSeq(ptr, 1, n)),
                       !.pos = ToGSize(es.mem.pos + nmemb)],
            rv  |-> nmemb, out |-> <<>>,
            oob |-> Outside(es.mem, es.mem.pos, n)]
      ELSE IF size # 0 /\ nmemb # 0
      THEN [mem |-> es.mem, rv |-> 0, out |-> <<>>, oob |-> FALSE]
      ELSE [mem |-> m, rv |-> 0, out |-> <<>>, oob |-> FALSE]

\* mio_write: ptr holds size * nmemb bytes
mio_write(m, ptr, size, nmemb, avail) ==
  LET n  == ToGSize(size * nmemb)
      es == try_ensure_space(m, n, avail)
  IN  IF size # 0 /\ nmemb # 0 /\ es.success
      THEN [mem |-> [es.mem EXCEPT
                       !.buf = Store(es.mem.buf, es.mem.pos, SubSeq(ptr, 1, n)),
                       !.pos = ToGSize(es.mem.pos + n)],
            rv  |-> nmemb, out |-> <<>>,
            oob |-> Outside(es.mem, es.mem.pos, n)]
      ELSE IF size # 0 /\ nmemb # 0
      THEN [mem |-> es.mem, rv |-> 0, out |-> <<>>, oob |-> FALSE]
      ELSE [mem |-> m, rv |-> 0, out |-> <<>>, oob |-> FALSE]

\* mio_putc
mio_putc(m, c, avail) ==
  LET es == try_ensure_space(m, 1, avail)
  IN  IF es.success
      THEN [mem |-> [es.mem EXCEPT
                       !.buf = Store(es.mem.buf, es.mem.pos, <<ToGUChar(c)>>),
                       !.pos = ToGSize(es.mem.pos + 1)],
            rv  |-> ToGUChar(c), out |-> <<>>,
            oob |-> Outside(es.mem, es.mem.pos, 1)]
      ELSE [mem |-> es.mem, rv |-> EOF, out |-> <<>>, oob |-> FALSE]

\* mio_puts
mio_puts(m, s, avail) ==
  LET len == Len(s)
      es  == try_ensure_space(m, len, avail)
  IN  IF es.success
      THEN [mem |-> [es.mem EXCEPT
                       !.buf = Store(es.mem.buf, es.mem.pos, s),
                       !.pos = ToGSize(es.mem.pos + len)],
            rv  |-> 1, out |-> <<>>,
            oob |-> Outside(es.mem, es.mem.pos, len)]
      ELSE [mem |-> es.mem, rv |-> EOF, out |-> <<>>, oob |-> FALSE]

\* vsnprintf (dst, limit, format, ap): the number of characters the format
\* and its arguments expand to, or a negative value on an output error.
\* `text` is that expansion; both calls of mio_vprintf see the same format
\* and arguments and so the same value.
vsnprintf(text, fmt_ok) == IF fmt_ok THEN Len(text) ELSE -1

\* mio_vprintf
mio_vprintf(m, text, fmt_ok, avail) ==
  LET old_pos  == m.pos
      old_size == m.size
      n        == vsnprintf(text, fmt_ok)
      es       == try_ensure_space(m, n + 1, avail)
  IN  IF n >= 0 /\ es.success
      THEN LET m1   == es.mem
               c    == Load(m1, m1.pos + n)
               rv2  == vsnprintf(text, fmt_ok)
               b1   == Store(m1.buf, m1.pos, text \o <<NUL>>)
               b2   == Store(b1, m1.pos + n, <<c>>)
               done == Outside(m1, m1.pos, n + 1)
           IN  IF rv2 >= 0 /\ rv2 = n
               THEN [mem |-> [m1 EXCEPT
                                !.buf  = b2,
                                !.size = MAX(old_size, ToGSize(old_pos + rv2)),
                                !.pos  = ToGSize(m1.pos + rv2)],
                     rv |-> rv2, out |-> <<>>, oob |-> done]
               ELSE [mem |-> [m1 EXCEPT !.buf = b2, !.size = old_size],
                     rv |-> -1, out |-> <<>>, oob |-> done]
      ELSE IF n >= 0
      THEN [mem |-> es.mem, rv |-> -1, out |-> <<>>, oob |-> FALSE]
      ELSE [mem |-> m, rv |-> -1, out |-> <<>>, oob |-> FALSE]

\* mio_getc
mio_getc(m) ==
  IF m.ungetch # EOF
  THEN [mem |-> [m EXCEPT !.ungetch = EOF, !.pos = ToGSize(m.pos + 1)],
        rv  |-> m.ungetch, out |-> <<>>, oob |-> FALSE]
  ELSE IF m.pos < m.size
  THEN [mem |-> [m EXCEPT !.pos = ToGSize(m.pos + 1)],
        rv  |-> Load(m, m.pos), out |-> <<>>, oob |-> ~InBlock(m, m.pos)]
  ELSE [mem |-> [m EXCEPT !.eof = TRUE],
        rv  |-> EOF, out |-> <<>>, oob |-> FALSE]

\* mio_ungetc that leaves the cursor where it is
mio_ungetc_in_place(m, ch) ==
  IF ch # EOF /\ m.ungetch = EOF
  THEN [mem |-> [m EXCEPT !.ungetch = ch, !.eof = FALSE],
        rv  |-> ch, out |-> <<>>, oob |-> FALSE]
  ELSE [mem |-> m, rv |-> EOF, out |-> <<>>, oob |-> FALSE]

\* mio_ungetc
mio_ungetc(m, ch) ==
  IF ch # EOF /\ m.ungetch = EOF
  THEN [mem |-> [m EXCEPT !.ungetch = ch,
                          !.pos = ToGSize(m.pos - 1),
                          !.eof = FALSE],
        rv  |-> ch, out |-> <<>>, oob |-> FALSE]
  ELSE [mem |-> m, rv |-> EOF, out |-> <<>>, oob |-> FALSE]

\* the for loop of mio_gets; s holds the i characters stored so far.
\* gnl: whether a byte that was never written reads as a newline.
RECURSIVE gets_loop(_, _, _, _)
gets_loop(r, s, size, gnl) ==
  IF r.mem.pos < r.mem.size /\ Len(s) < size - 1
  THEN LET ch == Load(r.mem, r.mem.pos)
           r1 == [mem |-> [r.mem EXCEPT !.pos = ToGSize(r.mem.pos + 1)],
                  oob |-> r.oob \/ ~InBlock(r.mem, r.mem.pos)]
       IN  IF ch = NL \/ (ch = Garbage /\ gnl)
           THEN [mem |-> r1.mem, oob |-> r1.oob, s |-> Append(s, ch)]
           ELSE gets_loop(r1, Append(s, ch), size, gnl)
  ELSE [mem |-> r.mem, oob |-> r.oob, s |-> s]

\* mio_gets: out is what the call stored into s, terminator included
mio_gets(m, size, gnl) ==
  IF size > 0 THEN
    LET first == IF m.ungetch # EOF
                 THEN [mem |-> [m EXCEPT !.ungetch = EOF,
                                         !.pos = ToGSize(m.pos + 1)],
                       s   |-> <<ToGUChar(m.ungetch)>>]
                 ELSE [mem |-> m, s |-> <<>>]
        r == gets_loop([mem |-> first.mem, oob |-> FALSE], first.s, size, gnl)
        e == [r.mem EXCEPT !.eof = IF r.mem.pos >= r.mem.size THEN TRUE ELSE @]
    IN  IF Len(r.s) > 0
        THEN [mem |-> e, rv |-> 1, out |-> r.s \o <<NUL>>, oob |-> r.oob]
        ELSE [mem |-> e, rv |-> 0, out |-> <<>>, oob |-> r.oob]
  ELSE [mem |-> m, rv |-> 0, out |-> <<>>, oob |-> FALSE]

\* mio_clearerr
mio_clearerr(m) ==
  [mem |-> [m EXCEPT !.error = FALSE, !.eof = FALSE],
   rv  |-> 0, out |-> <<>>, oob |-> FALSE]

\* mio_eof
mio_eof(m) ==
  [mem |-> m, rv |-> IF m.eof # FALSE THEN 1 ELSE 0,
   out |-> <<>>, oob |-> FALSE]

\* mio_error
mio_error(m) ==
  [mem |-> m, rv |-> IF m.error # FALSE THEN 1 ELSE 0,
   out |-> <<>>, oob |-> FALSE]

\* mio_seek: offset is a glong
mio_seek(m, offset, whence) ==
  LET fail == [mem |-> m, rv |-> -1, out |-> <<>>, oob |-> FALSE]
      ok(p) == [mem |-> [m EXCEPT !.pos = p, !.eof = FALSE, !.ungetch = EOF],
                rv  |-> 0, out |-> <<>>, oob |-> FALSE]
  IN  CASE whence = SEEK_SET ->
             IF offset < 0 \/ ToGSize(offset) > m.size
             THEN fail ELSE ok(ToGSize(offset))
        [] whence = SEEK_CUR ->
             IF (offset < 0 /\ ToGSize(-offset) > m.pos)
                \/ ToGSize(m.pos + offset) > m.size
             THEN fail ELSE ok(ToGSize(m.pos + offset))
        [] whence = SEEK_END ->
             IF offset > 0 \/ ToGSize(-offset) > m.size
             THEN fail ELSE ok(ToGSize(m.size - ToGSize(-offset)))
        [] OTHER -> fail

\* mio_tell
mio_tell(m) ==
  [mem |-> m, rv |-> ToGLong(m.pos), out |-> <<>>, oob |-> FALSE]

\* mio_rewind
mio_rewind(m) ==
  [mem |-> [m EXCEPT !.pos = 0, !.ungetch = EOF,
                     !.eof = FALSE, !.error = FALSE],
   rv  |-> 0, out |-> <<>>, oob |-> FALSE]

\* mio_getpos: out is the value stored into the caller's MIOPos
mio_getpos(m) ==
  IF m.pos = ToGSize(-1)
  THEN [mem |-> m, rv |-> -1, out |-> <<>>, oob |-> FALSE]
  ELSE [mem |-> m, rv |-> 0, out |-> <<m.pos>>, oob |-> FALSE]

\* mio_setpos raising the error flag when it rejects the position
mio_setpos_flagging(m, pos) ==
  IF pos > m.size
  THEN [mem |-> [m EXCEPT !.error = TRUE], rv |-> -1, out |-> <<>>,
        oob |-> FALSE]
  ELSE [mem |-> [m EXCEPT !.ungetch = EOF, !.pos = pos],
        rv  |-> 0, out |-> <<>>, oob |-> FALSE]

\* mio_setpos
mio_setpos(m, pos) ==
  IF pos > m.size
  THEN [mem |-> m, rv |-> -1, out |-> <<>>, oob |-> FALSE]
  ELSE [mem |-> [m EXCEPT !.ungetch = EOF, !.pos = pos],
        rv  |-> 0, out |-> <<>>, oob |-> FALSE]

(***************************************************************************)
(* The calls a client can make, with their arguments drawn from the        *)
(* bounded input sets.                                                     *)
(***************************************************************************)
Records   == 0..MaxReadSize
Texts     == SeqUpTo(Bytes, MaxWriteLen)
Offsets   == (-MaxOffset)..MaxOffset
Whences   == {SEEK_SET, SEEK_CUR, SEEK_END, 3}
PosValues == 0..(MaxAlloc + 1)
Avails    == {0, MaxAlloc}

\* the notebook of a client that follows no scenario
NoClient == [phase |-> "none", written |-> <<>>, readback |-> <<>>,
             requested |-> 0, saved |-> <<>>]

\* the state after a call whose result is r
Return(r) == mem' = r.mem

Read(size, nmemb) ==
  /\ Return(mio_read(mem, size, nmemb))
  /\ UNCHANGED client

Write(ptr, size, nmemb, avail) ==
  /\ Len(ptr) = size * nmemb
  /\ Return(mio_write(mem, ptr, size, nmemb, avail))
  /\ UNCHANGED client

Putc(c, avail) ==
  /\ Return(mio_putc(mem, c, avail))
  /\ UNCHANGED client

Puts(s, avail) ==
  /\ Return(mio_puts(mem, s, avail))
  /\ UNCHANGED client

Printf(text, fmt_ok, avail) ==
  /\ Return(mio_vprintf(mem, text, fmt_ok, avail))
  /\ UNCHANGED client

Getc ==
  /\ Return(mio_getc(mem))
  /\ UNCHANGED client

Ungetc(ch) ==
  /\ Return(mio_ungetc(mem, ch))
  /\ UNCHANGED client

Gets(size, gnl) ==
  /\ Return(mio_gets(mem, size, gnl))
  /\ UNCHANGED client

Clearerr ==
  /\ Return(mio_clearerr(mem))
  /\ UNCHANGED client

Eof ==
  /\ Return(mio_eof(mem))
  /\ UNCHANGED client

Error ==
  /\ Return(mio_error(mem))
  /\ UNCHANGED client

Seek(offset, whence) ==
  /\ Return(mio_seek(mem, offset, whence))
  /\ UNCHANGED client

Tell ==
  /\ Return(mio_tell(mem))
  /\ UNCHANGED client

Rewind ==
  /\ Return(mio_rewind(mem))
  /\ UNCHANGED client

Getpos ==
  /\ Return(mio_getpos(mem))
  /\ UNCHANGED client

Setpos(pos) ==
  /\ Return(mio_setpos(mem, pos))
  /\ UNCHANGED client

Init ==
  /\ \E size \in 0..MaxInitSize, realloc_func \in BOOLEAN :
       \E data \in [1..size -> Bytes] :
         mem = mio_new_memory(data, size, realloc_func)
  /\ client = NoClient

Next ==
  \/ \E size \in Records, nmemb \in Records : Read(size, nmemb)
  \/ \E ptr \in Texts, avail \in Avails :
       \E size \in 0..MaxWriteLen :
         \E nmemb \in {k \in 0..MaxWriteLen : size * k = Len(ptr)} :
           Write(ptr, size, nmemb, avail)
  \/ \E c \in Bytes, avail \in Avails : Putc(c, avail)
  \/ \E s \in Texts, avail \in Avails : Puts(s, avail)
  \/ \E text \in Texts, avail \in Avails :
       \E fmt_ok \in IF text = <<>> THEN BOOLEAN ELSE {TRUE} :
         Printf(text, fmt_ok, avail)
  \/ Getc
  \/ \E ch \in Bytes \cup {EOF} : Ungetc(ch)
  \/ \E size \in 0..(MaxReadSize + 1), gnl \in BOOLEAN : Gets(size, gnl)
  \/ Clearerr
  \/ Eof
  \/ Error
  \/ \E whence \in Whences :
       \E offset \in IF whence \in {SEEK_SET, SEEK_CUR, SEEK_END}
                     THEN Offsets ELSE {0} :
         Seek(offset, whence)
  \/ Tell
  \/ Rewind
  \/ Getpos
  \/ \E pos \in PosValues : Setpos(pos)

Spec == Init /\ [][Next]_vars

(***************************************************************************)
(* The round-trip scenario: a client creates an empty growable stream      *)
(* whose allocator always has storage, writes, rewinds once, then reads.   *)
(* It notes the bytes it handed to the stream (written), the bytes the     *)
(* stream handed back (readback) and how many bytes its reads asked for    *)
(* (requested).                                                            *)
(***************************************************************************)
RTAvail == MaxRoundTrip + MIO_CHUNK_SIZE

RTNote(bytes) ==
  /\ client.phase = "write"
  /\ Len(client.written) + Len(bytes) <= MaxRoundTrip
  /\ client' = [client EXCEPT !.written = @ \o bytes]

RTWrite(ptr, size, nmemb) ==
  /\ Len(ptr) = size * nmemb
  /\ RTNote(ptr)
  /\ Return(mio_write(mem, ptr, size, nmemb, RTAvail))

RTPutc(c) ==
  /\ RTNote(<<c>>)
  /\ Return(mio_putc(mem, c, RTAvail))

RTPuts(s) ==
  /\ RTNote(s)
  /\ Return(mio_puts(mem, s, RTAvail))

RTRewind ==
  /\ client.phase = "write"
  /\ client' = [client EXCEPT !.phase = "read"]
  /\ Return(mio_rewind(mem))

RTRead(size, nmemb) ==
  LET r == mio_read(mem, size, nmemb)
  IN  /\ client.phase = "read"
      /\ client.requested + size * nmemb <= MaxRoundTrip
      /\ client' = [client EXCEPT !.readback = @ \o r.out,
                                  !.requested = @ + size * nmemb]
      /\ Return(r)

InitRT ==
  /\ mem = mio_new_memory(<<>>, 0, TRUE)
  /\ client = [NoClient EXCEPT !.phase = "write"]

NextRT ==
  \/ \E ptr \in Texts :
       \E size \in 0..MaxWriteLen :
         \E nmemb \in {k \in 0..MaxWriteLen : size * k = Len(ptr)} :
           RTWrite(ptr, size, nmemb)
  \/ \E c \in Bytes : RTPutc(c)
  \/ \E s \in Texts : RTPuts(s)
  \/ RTRewind
  \/ \E size \in Records, nmemb \in Records : RTRead(size, nmemb)

SpecRT == InitRT /\ [][NextRT]_vars

(***************************************************************************)
(* The snapshot scenario: a client that makes arbitrary calls saves the     *)
(* position once, at any moment, and keeps the MIOPos it was handed         *)
(* (saved) while it goes on calling.                                        *)
(***************************************************************************)
SnapSave ==
  LET r == mio_getpos(mem)
  IN  /\ client.saved = <<>>
      /\ r.rv = 0
      /\ client' = [client EXCEPT !.saved = r.out]
      /\ Return(r)

NextSnap ==
  \/ Next
  \/ SnapSave

SpecSnap == Init /\ [][NextSnap]_vars

TypeOK ==
  /\ mem.pos \in 0..G_MAXSIZE
  /\ mem.size \in 0..G_MAXSIZE
  /\ mem.allocated_size = Len(mem.buf)
  /\ mem.ungetch \in Bytes \cup {EOF}

(***************************************************************************)
(* The position as the client sees it: the value mio_tell() reports.       *)
(***************************************************************************)
Position(m) == mio_tell(m).rv

\* C1: after every operation of a memory stream has completed, in every
\* reachable state, position <= length.  The position is taken as tell()
\* reports it, so that the cursor one before the start counts as -1.
C1_PositionWithinLength == Position(mem) <= mem.size

\* C2: in every reachable state of a memory stream, length (size) <=
\* capacity (allocated_size).
C2_LengthWithinCapacity == mem.size <= mem.allocated_size

\* C3: on an initially empty growable stream whose allocations all succeed,
\* after writes (write, put-char, put-string), one rewind and reads that
\* together asked for as many bytes as were written, the bytes read back
\* are the bytes written, in order.
C3_RoundTrip ==
  (client.phase = "read" /\ client.requested = Len(client.written))
    => client.readback = client.written

\* a round trip of at least three bytes, not all equal, has completed
C3_Witness ==
  /\ client.phase = "read"
  /\ client.requested = Len(client.written)
  /\ Len(client.written) >= 3
  /\ \E i, j \in 1..Len(client.written) : client.written[i] # client.written[j]
  /\ client.readback = client.written

\* C4: from any reachable state with no push-back pending, unget_char(c)
\* with c not the end-of-stream sentinel followed at once by read_char()
\* returns c, leaves no push-back pending and leaves the position where it
\* was before the two calls.
C4_UngetThenGetc ==
  mem.ungetch = EOF =>
    \A c \in Bytes :
      LET u == mio_ungetc(mem, c)
          g == mio_getc(u.mem)
      IN  /\ g.rv = c
          /\ g.mem.ungetch = EOF
          /\ Position(g.mem) = Position(mem)
          /\ g.mem.pos = mem.pos

\* a byte was pushed back at the very start of the stream (only there does
\* the cursor wrap) and read_char hands it back, ending at position 0
C4_Witness ==
  /\ mem.ungetch \in Bytes
  /\ mem.pos = G_MAXSIZE
  /\ mem.size = 0
  /\ mio_getc(mem).rv = mem.ungetch
  /\ mio_getc(mem).mem.pos = 0
  /\ mio_getc(mem).mem.ungetch = EOF

(***************************************************************************)
(* The target of seek (offset, whence) as the specification defines it,    *)
(* and whether it is a valid one.                                          *)
(***************************************************************************)
SeekTarget(m, offset, whence) ==
  CASE whence = SEEK_SET -> offset
    [] whence = SEEK_CUR -> Position(m) + offset
    [] whence = SEEK_END -> m.size + offset

SeekValid(m, offset, whence) ==
  /\ whence \in {SEEK_SET, SEEK_CUR, SEEK_END}
  /\ whence = SEEK_END => offset <= 0
  /\ SeekTarget(m, offset, whence) \in 0..m.size

\* C5: every invalid-argument failure returns the failure indicator and
\* leaves the whole stream state unchanged: unget_char with a push-back
\* pending or with the end-of-stream sentinel, seek with a target outside
\* [0, length] or an unknown whence, restore_position with a value above
\* the length.
C5_InvalidArgumentNoChange ==
  /\ \A ch \in Bytes \cup {EOF} :
       (mem.ungetch # EOF \/ ch = EOF) =>
         LET r == mio_ungetc(mem, ch) IN r.rv = EOF /\ r.mem = mem
  /\ \A offset \in Offsets, whence \in Whences :
       ~SeekValid(mem, offset, whence) =>
         LET r == mio_seek(mem, offset, whence) IN r.rv = -1 /\ r.mem = mem
  /\ \A pos \in PosValues :
       pos > mem.size =>
         LET r == mio_setpos(mem, pos) IN r.rv = -1 /\ r.mem = mem

\* C6: every seek whose target t lies in [0, length] succeeds, a following
\* tell() returns exactly t, no push-back is pending and EOF is cleared.
C6_SeekThenTell ==
  \A offset \in Offsets, whence \in Whences :
    SeekValid(mem, offset, whence) =>
      LET r == mio_seek(mem, offset, whence)
      IN  /\ r.rv = 0
          /\ mio_tell(r.mem).rv = SeekTarget(mem, offset, whence)
          /\ r.mem.ungetch = EOF
          /\ r.mem.eof = FALSE

\* the arguments of the writes a client makes
WriteArgs ==
  {a \in [ptr : Texts, size : 0..MaxWriteLen, nmemb : 0..MaxWriteLen,
          avail : Avails] : Len(a.ptr) = a.size * a.nmemb}

\* C7: every write of N = size * nmemb > 0 bytes that reports success
\* leaves position = old position + N and length >= old position + N.
C7_WriteAdvances ==
  \A a \in WriteArgs :
    LET r == mio_write(mem, a.ptr, a.size, a.nmemb, a.avail)
        N == a.size * a.nmemb
    IN  (N > 0 /\ r.rv = a.nmemb) =>
          /\ Position(r.mem) = Position(mem) + N
          /\ r.mem.size >= Position(mem) + N

\* C8: a successful write of N bytes at position p changes no byte of
\* [0, old length) outside [p, p+N).
C8_WriteFrame ==
  \A a \in WriteArgs :
    LET r == mio_write(mem, a.ptr, a.size, a.nmemb, a.avail)
        N == a.size * a.nmemb
        p == Position(mem)
    IN  (N > 0 /\ r.rv = a.nmemb) =>
          \A i \in 0..(mem.size - 1) :
            (i < p \/ i >= p + N) => Load(r.mem, i) = Load(mem, i)

\* two different bytes were written, the cursor is back at 0, and a
\* one-byte write replaces the first and leaves the second
C8_Witness ==
  /\ mem.pos = 0
  /\ mem.size = 2
  /\ mem.allocated_size >= 2
  /\ mem.buf[1] = NL
  /\ mem.buf[2] = 97
  /\ LET r == mio_write(mem, <<97>>, 1, 1, 0)
     IN  r.rv = 1 /\ r.mem.pos = 1 /\ r.mem.buf = <<97, 97>> \o SubSeq(mem.buf, 3, Len(mem.buf))

\* growth fails: there is no grow callback, or the callback is asked for a
\* block larger than the current one and has no storage
GrowthFails(m, need, avail) ==
  ~m.realloc_func \/ (need > m.allocated_size /\ avail = 0)

\* C9: when a write, put-char, put-string or formatted print needs more
\* than the current length and growth fails, the call returns its failure
\* value and leaves the whole stream state as it was; and whenever one of
\* them returns its failure value the stream state is as it was.
C9_FailedGrowthNoChange ==
  /\ \A a \in WriteArgs :
       LET r    == mio_write(mem, a.ptr, a.size, a.nmemb, a.avail)
           need == Position(mem) + a.size * a.nmemb
       IN  /\ (need > mem.size /\ GrowthFails(mem, need, a.avail))
                => r.rv = 0 /\ r.mem = mem
           /\ r.rv = 0 => r.mem = mem
  /\ \A avail \in Avails :
       /\ \A c \in Bytes :
            LET r    == mio_putc(mem, c, avail)
                need == Position(mem) + 1
            IN  /\ (need > mem.size /\ GrowthFails(mem, need, avail))
                     => r.rv = EOF /\ r.mem = mem
                /\ r.rv = EOF => r.mem = mem
       /\ \A t \in Texts :
            LET r    == mio_puts(mem, t, avail)
                need == Position(mem) + Len(t)
            IN  /\ (need > mem.size /\ GrowthFails(mem, need, avail))
                     => r.rv = EOF /\ r.mem = mem
                /\ r.rv = EOF => r.mem = mem
       /\ \A t \in Texts, fmt_ok \in BOOLEAN :
            LET r    == mio_vprintf(mem, t, fmt_ok, avail)
                need == Position(mem) + Len(t)
            IN  /\ (need > mem.size /\ GrowthFails(mem, need + 1, avail))
                     => r.rv = -1 /\ r.mem = mem
                /\ r.rv = -1 => r.mem = mem

\* the cursor is at the end of a non-empty growable stream whose block is
\* full, and put-char fails because the callback has no storage
C9_Witness ==
  /\ mem.realloc_func
  /\ mem.size >= 1
  /\ mem.pos = mem.size
  /\ mem.size = mem.allocated_size
  /\ mio_putc(mem, 97, 0).rv = EOF
  /\ mio_putc(mem, 97, 0).mem = mem

\* C10: a read of non-zero size and count at position = length with no
\* push-back returns 0 records, keeps the position and sets EOF; any such
\* read that leaves the cursor at the end of the data sets EOF; a following
\* clear_error() clears both flags and changes nothing else; a read of
\* size 0 or count 0 returns 0 and changes nothing.
C10_ReadAtEnd ==
  \A size \in Records, nmemb \in Records :
    LET r == mio_read(mem, size, nmemb)
        c == mio_clearerr(r.mem)
    IN  /\ (size # 0 /\ nmemb # 0 /\ mem.pos = mem.size /\ mem.ungetch = EOF)
             => r.rv = 0 /\ r.mem = [mem EXCEPT !.eof = TRUE]
        /\ (size # 0 /\ nmemb # 0 /\ r.mem.pos = r.mem.size)
             => r.mem.eof
        /\ c.mem = [r.mem EXCEPT !.eof = FALSE, !.error = FALSE]
        /\ (size = 0 \/ nmemb = 0) => r.rv = 0 /\ r.mem = mem

\* C11: every read of record size s >= 1 and count n >= 1, with or without
\* a push-back pending, that returns k records has advanced the cursor, as
\* tell() reports it, by exactly k * s bytes.
C11_ReadAdvancesByRecords ==
  \A size \in Records \ {0}, nmemb \in Records \ {0} :
    LET r == mio_read(mem, size, nmemb)
    IN  Position(r.mem) = Position(mem) + r.rv * size

\* the data bytes a line read stored, without the terminator
LineData(r) == SubSeq(r.out, 1, Len(r.out) - 1)

\* C12: a line read that returns data returns a string with at most one
\* newline, and a newline in it is its last character, also when the first
\* character is a pending push-back byte that is a newline.
C12_LineStopsAtNewline ==
  \A size \in 1..(MaxReadSize + 1), gnl \in BOOLEAN :
    LET r == mio_gets(mem, size, gnl)
    IN  r.rv # 0 =>
          \A i \in 1..Len(LineData(r)) :
            LineData(r)[i] = NL => i = Len(LineData(r))

\* C13: a line read with buffer_size >= 1 stores at most buffer_size - 1
\* data bytes and one terminator, so nothing at an index >= buffer_size of
\* the caller's buffer.
C13_LineFitsBuffer ==
  \A size \in 1..(MaxReadSize + 1), gnl \in BOOLEAN :
    Len(mio_gets(mem, size, gnl).out) <= size

\* C14: a successful formatted print of n characters at position p returns
\* n, sets position to p + n and length to max(old length, p + n), stores
\* the n characters at [p, p+n) and leaves every byte of [0, old length)
\* outside [p, p+n) unchanged.
C14_PrintfEffect ==
  \A text \in Texts, avail \in Avails :
    LET r == mio_vprintf(mem, text, TRUE, avail)
        p == Position(mem)
        n == Len(text)
    IN  r.rv >= 0 =>
          /\ r.rv = n
          /\ Position(r.mem) = p + n
          /\ r.mem.size = MAX(mem.size, p + n)
          /\ \A k \in 1..n : Load(r.mem, p + k - 1) = text[k]
          /\ \A i \in 0..(mem.size - 1) :
               (i < p \/ i >= p + n) => Load(r.mem, i) = Load(mem, i)

\* C15: a snapshot captured by a successful save_position() can be restored
\* after any sequence of intervening operations: restore_position()
\* succeeds, a following tell() returns the captured value and no
\* push-back is pending.
C15_SnapshotRestores ==
  client.saved # <<>> =>
    LET r == mio_setpos(mem, client.saved[1])
    IN  /\ r.rv = 0
        /\ Position(r.mem) = client.saved[1]
        /\ r.mem.ungetch = EOF

\* buffer, length, capacity and position of b are those of a
SameStorage(a, b) ==
  /\ b.buf = a.buf
  /\ b.size = a.size
  /\ b.allocated_size = a.allocated_size
  /\ b.pos = a.pos

\* C16: whenever the size a write, put-char, put-string or formatted print
\* requires (position + bytes to write, positions being unsigned SizeBits-bit
\* numbers) exceeds the maximum representable size, the operation fails and
\* buffer, length, capacity and position are unchanged.
C16_OverflowFails ==
  /\ \A a \in WriteArgs :
       LET r == mio_write(mem, a.ptr, a.size, a.nmemb, a.avail)
       IN  (a.size * a.nmemb > 0 /\ mem.pos + a.size * a.nmemb > G_MAXSIZE)
             => r.rv = 0 /\ SameStorage(mem, r.mem)
  /\ \A avail \in Avails :
       /\ \A c \in Bytes :
            LET r == mio_putc(mem, c, avail)
            IN  mem.pos + 1 > G_MAXSIZE
                  => r.rv = EOF /\ SameStorage(mem, r.mem)
       /\ \A t \in Texts \ {<<>>} :
            LET r == mio_puts(mem, t, avail)
            IN  mem.pos + Len(t) > G_MAXSIZE
                  => r.rv = EOF /\ SameStorage(mem, r.mem)
       /\ \A t \in Texts \ {<<>>} :
            LET r == mio_vprintf(mem, t, TRUE, avail)
            IN  mem.pos + Len(t) > G_MAXSIZE
                  => r.rv = -1 /\ SameStorage(mem, r.mem)

\* the cursor is in the negative state an unget_char at position 0 leaves
\* until the cursor is moved: the byte is still pending and tell() says -1
NegativeState(m) == m.ungetch # EOF /\ Position(m) = -1

\* C17: save_position() fails if and only if the cursor is in the negative
\* state left by an unget_char at position 0; in every other reachable
\* state it succeeds and captures exactly the value tell() returns; it
\* never changes the stream state.
C17_GetposFailsOnlyNegative ==
  LET r == mio_getpos(mem)
  IN  /\ r.mem = mem
      /\ (r.rv = -1) <=> NegativeState(mem)
      /\ ~NegativeState(mem) => r.rv = 0 /\ r.out = <<Position(mem)>>

\* C18: every byte that write, put-char, put-string or formatted print
\* stores into the stream buffer, and every byte that read, read_char or
\* line read fetches from it, is at an index in [0, capacity).
C18_AccessesInsideBlock ==
  /\ \A a \in WriteArgs :
       ~mio_write(mem, a.ptr, a.size, a.nmemb, a.avail).oob
  /\ \A avail \in Avails :
       /\ \A c \in Bytes : ~mio_putc(mem, c, avail).oob
       /\ \A t \in Texts : ~mio_puts(mem, t, avail).oob
       /\ \A t \in Texts : ~mio_vprintf(mem, t, TRUE, avail).oob
  /\ \A size \in Records, nmemb \in Records : ~mio_read(mem, size, nmemb).oob
  /\ ~mio_getc(mem).oob
  /\ \A size \in 1..(MaxReadSize + 1), gnl \in BOOLEAN :
       ~mio_gets(mem, size, gnl).oob

\* C19: whenever the EOF flag is set the cursor is at or past the end of
\* the valid data (position >= length).
C19_EofOnlyAtEnd == mem.eof => Position(mem) >= mem.size

\* C20: the error flag is false in every reachable state, so has_error()
\* returns 0 after any sequence of operations, failed ones included.
C20_ErrorNeverSet == mem.error = FALSE /\ mio_error(mem).rv = 0

\* a push-back is pending on a full fixed buffer, so that put-char fails
\* for want of space, unget_char is rejected, and a seek and a
\* restore_position past the end are rejected, all with the flag down
C20_Witness ==
  /\ ~mem.realloc_func
  /\ mem.size >= 1
  /\ mem.pos = mem.size
  /\ mem.ungetch # EOF
  /\ mio_putc(mem, 97, 0).rv = EOF
  /\ mio_putc(mem, 97, 0).mem.error = FALSE
  /\ mio_ungetc(mem, 97).rv = EOF
  /\ mio_ungetc(mem, 97).mem.error = FALSE
  /\ mio_seek(mem, 1, SEEK_CUR).rv = -1
  /\ mio_seek(mem, 1, SEEK_CUR).mem.error = FALSE
  /\ mio_setpos(mem, mem.size + 1).rv = -1
  /\ mio_setpos(mem, mem.size + 1).mem.error = FALSE
  /\ mio_error(mem).rv = 0

=============================================================================
